---- MODULE Spec2Model ----
(***************************************************************************)
(* Model of geometric_shapes/src/mesh_operations.cpp: construction of an   *)
(* indexed triangle mesh from raw point triples (with welding), from a     *)
(* pre-indexed vertex/triangle pair, and from an imported scene graph.     *)
(*                                                                         *)
(* Coordinates are integers: every value is an exactly representable,      *)
(* totally ordered double, so <, > and == are those of the code and the    *)
(* float-to-double products of extractMeshData are exact.  A NaN           *)
(* coordinate, for which ltLocalVertexValue answers false both ways, is    *)
(* outside the model.  Indices stay far below 2^32, so unsigned int        *)
(* arithmetic does not wrap.  The overloads that pass the scale (1,1,1)    *)
(* are the calls with that scale.  Mesh::computeTriangleNormals and        *)
(* Mesh::computeVertexNormals do not change the arrays modelled here.      *)
(***************************************************************************)
EXTENDS Integers, Sequences, FiniteSets, TLC

VARIABLES
  pc,          \* "idle": no call in progress; "weld": inside the welding loop;
               \* "done": the call returned; "crashed": write outside an array
  fn,          \* the entry point that was called
  arg,         \* the arguments of the call
  i,           \* loop counter of createMeshFromVertices(source)
  vertices,    \* std::set<LocalVertexType, ltLocalVertexValue> of the welder
  triangles,   \* std::vector<unsigned int> of the welder
  gvertices,   \* createMeshFromAsset: the global vertex list after traversal
  gtriangles,  \* createMeshFromAsset: the global triangle list after traversal
  copied,      \* [written, capacity] of the std::copy into mesh->triangles
  mesh,        \* the returned Mesh* (NULL or a Mesh)
  log          \* the log events of the call, in order

vars == <<pc, fn, arg, i, vertices, triangles, gvertices, gtriangles, copied, mesh, log>>

NULL == [null |-> TRUE]

(* no std::copy into a mesh has happened *)
NoCopy == [written |-> 0, capacity |-> 0]

----------------------------------------------------------------------------
(* Bounds of the model *)

MaxLen == 6          \* longest point sequence given to the welder
MaxVerts == 2        \* longest vertex list given to the pre-indexed builder
MaxIdxLen == 4       \* longest index list given to the pre-indexed builder
MaxNodes == 3        \* most nodes of a scene graph
MaxNodeMeshes == 2   \* most primitive meshes attached to one node
MaxAttached == 3     \* most attachments of primitive meshes in one scene

PointPool == {<<0, 0, 0>>, <<1, 0, 0>>, <<0, 1, 0>>, <<0, 0, 1>>}

SeqsUpTo(S, n) == UNION {[1..k -> S] : k \in 0..n}

----------------------------------------------------------------------------
(* detail::LocalVertexType and its two orderings *)

LocalVertexType(v, index) == [x |-> v[1], y |-> v[2], z |-> v[3], index |-> index]

(* variant: the comparison stops after y *)
ltLocalVertexValueIgnoresZ(p1, p2) ==
  IF p1.x < p2.x THEN TRUE
  ELSE IF p1.x > p2.x THEN FALSE
  ELSE IF p1.y < p2.y THEN TRUE
  ELSE FALSE

ltLocalVertexValue(p1, p2) ==
  IF p1.x < p2.x THEN TRUE
  ELSE IF p1.x > p2.x THEN FALSE
  ELSE IF p1.y < p2.y THEN TRUE
  ELSE IF p1.y > p2.y THEN FALSE
  ELSE IF p1.z < p2.z THEN TRUE
  ELSE FALSE

ltLocalVertexIndex(p1, p2) == p1.index < p2.index

(* std::set::find with ltLocalVertexValue: the elements neither less nor    *)
(* greater than the key (at most one in a set built through SetInsert)     *)
SetFind(set, key) ==
  {e \in set : ~ltLocalVertexValue(e, key) /\ ~ltLocalVertexValue(key, e)}

(* std::set::insert: no effect when an equivalent element is present *)
SetInsert(set, elem) == IF SetFind(set, elem) = {} THEN set \cup {elem} ELSE set

(* iteration vertices.begin() .. vertices.end(): ascending ltLocalVertexValue *)
RECURSIVE SetInOrder(_)
SetInOrder(set) ==
  IF set = {} THEN <<>>
  ELSE LET first == CHOOSE e \in set : \A o \in set \ {e} : ~ltLocalVertexValue(o, e)
       IN  <<first>> \o SetInOrder(set \ {first})

(* std::sort(vt.begin(), vt.end(), ltLocalVertexIndex()) *)
RECURSIVE InsertByIndex(_, _)
InsertByIndex(s, e) ==
  IF s = <<>> THEN <<e>>
  ELSE IF ltLocalVertexIndex(e, Head(s)) THEN <<e>> \o s
  ELSE <<Head(s)>> \o InsertByIndex(Tail(s), e)

(* variant: the vertices are left in the order of the set *)
SortByIndexSkipped(s) == s

RECURSIVE SortByIndex(_)
SortByIndex(s) ==
  IF s = <<>> THEN <<>> ELSE InsertByIndex(SortByIndex(Tail(s)), Head(s))

----------------------------------------------------------------------------
(* Mesh *)

NewMesh(v_count, t_count) ==
  [vertex_count |-> v_count, triangle_count |-> t_count,
   vertices |-> [k \in 1..(3 * v_count) |-> 0],
   triangles |-> [k \in 1..(3 * t_count) |-> 0]]

(* std::copy(triangles.begin(), triangles.end(), mesh->triangles): one     *)
(* write per source entry; those past the end of the array land outside it *)
CopyTriangles(m, tris) ==
  [m EXCEPT !.triangles =
     [k \in 1..(3 * m.triangle_count) |-> IF k <= Len(tris) THEN tris[k] ELSE @[k]]]

(* the loops writing mesh->vertices from a sequence of (x, y, z) *)
RECURSIVE FlatXYZ(_)
FlatXYZ(pts) ==
  IF pts = <<>> THEN <<>>
  ELSE <<Head(pts)[1], Head(pts)[2], Head(pts)[3]>> \o FlatXYZ(Tail(pts))

(* createMeshFromVertices(vertices, triangles) *)
createMeshFromVerticesIndexed(vs, tris) ==
  LET nt == Len(tris) \div 3
      m0 == NewMesh(Len(vs), nt)
      m1 == [m0 EXCEPT !.vertices = FlatXYZ(vs)]
  IN  [mesh |-> CopyTriangles(m1, tris),
       copied |-> [written |-> Len(tris), capacity |-> 3 * nt]]

----------------------------------------------------------------------------
(* createMeshFromVertices(source) *)

(* variant: a single triple is refused too *)
InsufficientInputOffByOne(source) == Len(source) <= 3

(* if (source.size() < 3) return NULL *)
InsufficientInput(source) == Len(source) < 3

(* one "check if we have new vertices" block of the loop *)
WeldPoint(st, p) ==
  LET vt == LocalVertexType(p, 0)
      found == SetFind(st.vertices, vt)
      index == IF found = {} THEN Cardinality(st.vertices)
               ELSE (CHOOSE e \in found : TRUE).index
      vti == [vt EXCEPT !.index = index]
  IN  [vertices |-> IF found = {} THEN SetInsert(st.vertices, vti) ELSE st.vertices,
       triangles |-> Append(st.triangles, index)]

Init ==
  /\ pc = "idle"
  /\ fn = "none"
  /\ arg = <<>>
  /\ i = 0
  /\ vertices = {}
  /\ triangles = <<>>
  /\ gvertices = <<>>
  /\ gtriangles = <<>>
  /\ copied = NoCopy
  /\ mesh = NULL
  /\ log = <<>>

(* entry of createMeshFromVertices(source) up to the loop *)
CallFromSource ==
  /\ pc = "idle"
  /\ \E source \in SeqsUpTo(PointPool, MaxLen) :
       /\ fn' = "source"
       /\ arg' = source
       /\ IF InsufficientInput(source)
          THEN /\ pc' = "done"
               /\ log' = <<>>
          ELSE /\ pc' = "weld"
               /\ log' = IF Len(source) % 3 # 0 THEN <<"error">> ELSE <<>>
  /\ UNCHANGED <<i, vertices, triangles, gvertices, gtriangles, copied, mesh>>

(* one iteration of the loop over the triples *)
WeldLoop ==
  /\ pc = "weld"
  /\ i < Len(arg) \div 3
  /\ LET i3 == i * 3
         s1 == WeldPoint([vertices |-> vertices, triangles |-> triangles], arg[i3 + 1])
         s2 == WeldPoint(s1, arg[i3 + 2])
         s3 == WeldPoint(s2, arg[i3 + 3])
     IN  /\ vertices' = s3.vertices
         /\ triangles' = s3.triangles
  /\ i' = i + 1
  /\ UNCHANGED <<pc, fn, arg, gvertices, gtriangles, copied, mesh, log>>

(* after the loop: sort the vertices by index and fill the mesh *)
Assemble ==
  /\ pc = "weld"
  /\ ~(i < Len(arg) \div 3)
  /\ LET vt == SortByIndex(SetInOrder(vertices))
         nt == Len(triangles) \div 3
         m0 == NewMesh(Len(vt), nt)
         m1 == [m0 EXCEPT !.vertices = FlatXYZ([k \in 1..Len(vt) |-> <<vt[k].x, vt[k].y, vt[k].z>>])]
     IN  /\ mesh' = CopyTriangles(m1, triangles)
         /\ copied' = [written |-> Len(triangles), capacity |-> 3 * nt]
  /\ pc' = "done"
  /\ UNCHANGED <<fn, arg, i, vertices, triangles, gvertices, gtriangles, log>>

(* the caller takes the result; the next call starts from fresh locals *)
Reset ==
  /\ pc \in {"done", "crashed"}
  /\ pc' = "idle"
  /\ fn' = "none"
  /\ arg' = <<>>
  /\ i' = 0
  /\ vertices' = {}
  /\ triangles' = <<>>
  /\ gvertices' = <<>>
  /\ gtriangles' = <<>>
  /\ copied' = NoCopy
  /\ mesh' = NULL
  /\ log' = <<>>

NextSource == CallFromSource \/ WeldLoop \/ Assemble \/ Reset

SpecSource == Init /\ [][NextSource]_vars

----------------------------------------------------------------------------
(* aiMatrix4x4 and aiVector3D: rows a, b, c, d of four entries *)

Identity == <<<<1, 0, 0, 0>>, <<0, 1, 0, 0>>, <<0, 0, 1, 0>>, <<0, 0, 0, 1>>>>
Translate2x == <<<<1, 0, 0, 2>>, <<0, 1, 0, 0>>, <<0, 0, 1, 0>>, <<0, 0, 0, 1>>>>
RotZ == <<<<0, -1, 0, 0>>, <<1, 0, 0, 0>>, <<0, 0, 1, 0>>, <<0, 0, 0, 1>>>>

(* aiMatrix4x4 operator* (matrix product) *)
MatMul(A, B) ==
  [r \in 1..4 |-> [c \in 1..4 |->
     A[r][1] * B[1][c] + A[r][2] * B[2][c] + A[r][3] * B[3][c] + A[r][4] * B[4][c]]]

(* aiMatrix4x4 * aiVector3D *)
MatVec(M, v) ==
  <<M[1][1] * v[1] + M[1][2] * v[2] + M[1][3] * v[3] + M[1][4],
    M[2][1] * v[1] + M[2][2] * v[2] + M[2][3] * v[3] + M[2][4],
    M[3][1] * v[1] + M[3][2] * v[2] + M[3][3] * v[3] + M[3][4]>>

----------------------------------------------------------------------------
(* extractMeshData *)

(* variant: the local transform is multiplied on the left *)
NodeTransformLocalLast(parent_transform, mTransformation) == MatMul(mTransformation, parent_transform)

(* aiMatrix4x4 transform = parent_transform; transform *= node->mTransformation *)
NodeTransform(parent_transform, mTransformation) == MatMul(parent_transform, mTransformation)

(* Eigen::Vector3d(v.x * scale.x(), v.y * scale.y(), v.z * scale.z()) of v = transform * vertex *)
EmitVertex(transform, scale, vertex) ==
  LET v == MatVec(transform, vertex)
  IN  <<v[1] * scale[1], v[2] * scale[2], v[3] * scale[3]>>

(* variant: faces with more than 3 indices are kept as well *)
KeepFaceAtLeastThree(face) == Len(face) >= 3

(* if (a->mFaces[i].mNumIndices == 3) *)
KeepFace(face) == Len(face) = 3

(* the loop over a->mFaces *)
RECURSIVE PushFaces(_, _, _)
PushFaces(tris, offset, faces) ==
  IF faces = <<>> THEN tris
  ELSE LET f == Head(faces)
       IN  PushFaces(IF KeepFace(f)
                     THEN tris \o <<offset + f[1], offset + f[2], offset + f[3]>>
                     ELSE tris,
                     offset, Tail(faces))

(* variant: the offset is read after the mesh's vertices were appended *)
PushMeshOffsetAfterVertices(acc, a, transform, scale) ==
  LET offset == Len(acc.vertices) + Len(a.mVertices)
  IN  [vertices |-> acc.vertices \o
                    [k \in 1..Len(a.mVertices) |-> EmitVertex(transform, scale, a.mVertices[k])],
       triangles |-> PushFaces(acc.triangles, offset, a.mFaces)]

(* body of the loop over node->mMeshes for one primitive mesh a *)
PushMesh(acc, a, transform, scale) ==
  LET offset == Len(acc.vertices)
  IN  [vertices |-> acc.vertices \o
                    [k \in 1..Len(a.mVertices) |-> EmitVertex(transform, scale, a.mVertices[k])],
       triangles |-> PushFaces(acc.triangles, offset, a.mFaces)]

(* the loop over node->mMeshes, from position j.  The accumulated lists    *)
(* are bound through a one-element set so that they are evaluated once.    *)
RECURSIVE PushNodeMeshes(_, _, _, _, _, _)
PushNodeMeshes(scene, node, transform, scale, acc, j) ==
  IF j > Len(scene.node[node].mMeshes) THEN acc
  ELSE CHOOSE r \in
         {PushNodeMeshes(scene, node, transform, scale, next, j + 1) :
            next \in {PushMesh(acc, scene.mMeshes[scene.node[node].mMeshes[j] + 1],
                               transform, scale)}} : TRUE

RECURSIVE extractMeshData(_, _, _, _, _)
RECURSIVE ExtractChildren(_, _, _, _, _, _)

(* the loop over node->mChildren, from position n *)
ExtractChildren(scene, node, transform, scale, acc, n) ==
  IF n > Len(scene.node[node].mChildren) THEN acc
  ELSE CHOOSE r \in
         {ExtractChildren(scene, node, transform, scale, next, n + 1) :
            next \in {extractMeshData(scene, scene.node[node].mChildren[n],
                                      transform, scale, acc)}} : TRUE

(* variant: the children are visited before the node's own meshes *)
extractMeshDataChildrenFirst(scene, node, parent_transform, scale, acc) ==
  CHOOSE r \in
    {PushNodeMeshes(scene, node, transform, scale,
                    ExtractChildren(scene, node, transform, scale, acc, 1), 1) :
       transform \in {NodeTransform(parent_transform, scene.node[node].mTransformation)}} : TRUE

extractMeshData(scene, node, parent_transform, scale, acc) ==
  CHOOSE r \in
    {ExtractChildren(scene, node, transform, scale,
                     PushNodeMeshes(scene, node, transform, scale, acc, 1), 1) :
       transform \in {NodeTransform(parent_transform, scene.node[node].mTransformation)}} : TRUE

----------------------------------------------------------------------------
(* createMeshFromAsset(scene, scale, resource_name) *)

Warn(what) == [level |-> "warn", what |-> what]
Error(what) == [level |-> "error", what |-> what]

(* aiScene::HasMeshes() *)
HasMeshes(scene) == Len(scene.mMeshes) > 0

(* variant: the test for an empty triangle list is missing *)
createMeshFromAssetNoTriangleCheck(scene, scale) ==
  IF ~HasMeshes(scene)
  THEN [mesh |-> NULL, log |-> <<Warn("scene has no meshes")>>,
        vertices |-> <<>>, triangles |-> <<>>, copied |-> NoCopy]
  ELSE LET flat == extractMeshData(scene, scene.mRootNode, Identity, scale,
                                   [vertices |-> <<>>, triangles |-> <<>>])
       IN  IF flat.vertices = <<>>
           THEN [mesh |-> NULL, log |-> <<Warn("no vertices in the scene")>>,
                 vertices |-> flat.vertices, triangles |-> flat.triangles, copied |-> NoCopy]
           ELSE LET r == createMeshFromVerticesIndexed(flat.vertices, flat.triangles)
                IN  [mesh |-> r.mesh, log |-> <<>>,
                     vertices |-> flat.vertices, triangles |-> flat.triangles,
                     copied |-> r.copied]

createMeshFromAsset(scene, scale) ==
  IF ~HasMeshes(scene)
  THEN [mesh |-> NULL, log |-> <<Warn("scene has no meshes")>>,
        vertices |-> <<>>, triangles |-> <<>>, copied |-> NoCopy]
  ELSE LET flat == extractMeshData(scene, scene.mRootNode, Identity, scale,
                                   [vertices |-> <<>>, triangles |-> <<>>])
       IN  IF flat.vertices = <<>>
           THEN [mesh |-> NULL, log |-> <<Warn("no vertices in the scene")>>,
                 vertices |-> flat.vertices, triangles |-> flat.triangles, copied |-> NoCopy]
           ELSE IF flat.triangles = <<>>
           THEN [mesh |-> NULL, log |-> <<Warn("no triangles in the scene")>>,
                 vertices |-> flat.vertices, triangles |-> flat.triangles, copied |-> NoCopy]
           ELSE LET r == createMeshFromVerticesIndexed(flat.vertices, flat.triangles)
                IN  [mesh |-> r.mesh, log |-> <<>>,
                     vertices |-> flat.vertices, triangles |-> flat.triangles,
                     copied |-> r.copied]

----------------------------------------------------------------------------
(* Scene graphs given to createMeshFromAsset *)

XformPool == {Identity, Translate2x, RotZ}
ScalePool == {<<1, 1, 1>>, <<2, 3, 5>>}

aiMesh(mVertices, mFaces) == [mVertices |-> mVertices, mFaces |-> mFaces]

MeshA == aiMesh(<<<<1, 0, 0>>>>, <<<<0, 0, 0>>>>)
MeshB == aiMesh(<<<<0, 1, 0>>, <<1, 1, 0>>>>,
                <<<<0, 1>>, <<1, 0, 1>>, <<0, 1, 1, 0>>, <<0, 0, 1>>>>)
MeshC == aiMesh(<<<<0, 0, 1>>>>, <<<<0, 0>>>>)
MeshE == aiMesh(<<<<1, 0, 0>>>>, <<<<0, 1, 0>>>>)

(* the candidate scene->mMeshes arrays *)
MeshArrays == {<<>>, <<MeshA>>, <<MeshC>>, <<MeshE>>, <<MeshB, MeshA>>, <<MeshC, MeshB>>}

(* parent of every node but the root 1; a parent precedes its children *)
Parents(n) == {p \in [2..n -> 1..n] : \A k \in 2..n : p[k] < k}

(* mChildren: the nodes whose parent is node, in ascending order *)
RECURSIVE ChildrenFrom(_, _, _, _)
ChildrenFrom(p, n, node, k) ==
  IF k > n THEN <<>>
  ELSE (IF p[k] = node THEN <<k>> ELSE <<>>) \o ChildrenFrom(p, n, node, k + 1)

MakeScene(n, p, xf, arr, ml) ==
  [mMeshes |-> arr,
   mRootNode |-> 1,
   node |-> [k \in 1..n |-> [mTransformation |-> xf[k],
                             mMeshes |-> ml[k],
                             mChildren |-> ChildrenFrom(p, n, k, 2)]]]

(* the importer's scenes: TransformScenes vary the transforms (every node  *)
(* holds MeshA or nothing), GeometryScenes vary the attached geometry      *)
(* (every node translated by (2,0,0))                                      *)
TransformScenes(n) ==
  {MakeScene(n, p, xf, <<MeshA>>, ml) :
     p \in Parents(n), xf \in [1..n -> XformPool], ml \in [1..n -> {<<>>, <<0>>}]}

RECURSIVE Attached(_, _)
Attached(ml, n) == IF n = 0 THEN 0 ELSE Len(ml[n]) + Attached(ml, n - 1)

AttachLists(n, k) ==
  {ml \in [1..n -> SeqsUpTo(0..(k - 1), MaxNodeMeshes)] : Attached(ml, n) <= MaxAttached}

GeometryScenes(n, arr) ==
  {MakeScene(n, p, [k \in 1..n |-> Translate2x], arr, ml) :
     p \in Parents(n), ml \in AttachLists(n, Len(arr))}

AssetCall(scene, scale) ==
  \E r \in {createMeshFromAsset(scene, scale)} :
      /\ pc' = "done"
      /\ fn' = "asset"
      /\ arg' = [scene |-> scene, scale |-> scale]
      /\ gvertices' = r.vertices
      /\ gtriangles' = r.triangles
      /\ copied' = r.copied
      /\ mesh' = r.mesh
      /\ log' = r.log
      /\ UNCHANGED <<i, vertices, triangles>>

CallFromAsset ==
  /\ pc = "idle"
  /\ \E n \in 1..MaxNodes, scale \in ScalePool :
    \/ \E scene \in TransformScenes(n) : AssetCall(scene, scale)
    \/ \E arr \in MeshArrays : \E scene \in GeometryScenes(n, arr) : AssetCall(scene, scale)

NextAsset == CallFromAsset \/ Reset

SpecAsset == Init /\ [][NextAsset]_vars

----------------------------------------------------------------------------
(* createMeshFromVertices(vertices, triangles) called directly *)

CallFromIndexed ==
  /\ pc = "idle"
  /\ \E vs \in SeqsUpTo(PointPool, MaxVerts), tris \in SeqsUpTo(0..(MaxVerts - 1), MaxIdxLen) :
       \E r \in {createMeshFromVerticesIndexed(vs, tris)} :
         /\ fn' = "indexed"
         /\ arg' = [vertices |-> vs, triangles |-> tris]
         /\ copied' = r.copied
         /\ mesh' = r.mesh
            \* a write past the end of mesh->triangles is undefined behaviour:
            \* the call may return normally or the process may fault
         /\ pc' \in IF r.copied.written > r.copied.capacity THEN {"done", "crashed"} ELSE {"done"}
  /\ log' = <<>>
  /\ UNCHANGED <<i, vertices, triangles, gvertices, gtriangles>>

NextIndexed == CallFromIndexed \/ Reset

SpecIndexed == Init /\ [][NextIndexed]_vars

----------------------------------------------------------------------------
(* createMeshFromBinary and createMeshFromResource *)

(* imported: what Assimp::Importer::ReadFileFromMemory returns, a scene or NULL *)
createMeshFromBinary(buffer, size, scale, imported) ==
  IF buffer = NULL \/ size < 1
  THEN [mesh |-> NULL, log |-> <<Warn("empty binary buffer")>>,
        vertices |-> <<>>, triangles |-> <<>>, copied |-> NoCopy]
  ELSE IF imported # NULL
  THEN createMeshFromAsset(imported, scale)
  ELSE [mesh |-> NULL, log |-> <<>>,
        vertices |-> <<>>, triangles |-> <<>>, copied |-> NoCopy]

(* retrieved: the outcome of retriever.get(resource): an exception, or a   *)
(* MemoryResource [data, size]                                             *)
createMeshFromResource(retrieved, scale, imported) ==
  IF retrieved.threw
  THEN [mesh |-> NULL, log |-> <<Error("retrieval exception")>>,
        vertices |-> <<>>, triangles |-> <<>>, copied |-> NoCopy]
  ELSE IF retrieved.size = 0
  THEN [mesh |-> NULL, log |-> <<Warn("retrieved empty mesh")>>,
        vertices |-> <<>>, triangles |-> <<>>, copied |-> NoCopy]
  ELSE LET m == createMeshFromBinary(retrieved.data, retrieved.size, scale, imported)
       IN  IF m.mesh = NULL
           THEN [m EXCEPT !.log = Append(@, Warn("Assimp reports no scene"))]
           ELSE m

(* the scenes the importer may hand back: one node *)
ImportedScenes ==
  {NULL} \cup TransformScenes(1) \cup UNION {GeometryScenes(1, arr) : arr \in MeshArrays}

Bytes == [bytes |-> "mesh file"]

Buffers == {NULL, Bytes}

Retrievals ==
  {[threw |-> TRUE, data |-> NULL, size |-> 0],
   [threw |-> FALSE, data |-> NULL, size |-> 0],
   [threw |-> FALSE, data |-> Bytes, size |-> 1]}

CallFromBinary ==
  /\ pc = "idle"
  /\ \E buffer \in Buffers, size \in 0..1, scale \in ScalePool, imported \in ImportedScenes :
       \E r \in {createMeshFromBinary(buffer, size, scale, imported)} :
         /\ fn' = "binary"
         /\ arg' = [buffer |-> buffer, size |-> size, scale |-> scale, imported |-> imported]
         /\ gvertices' = r.vertices
         /\ gtriangles' = r.triangles
         /\ copied' = r.copied
         /\ mesh' = r.mesh
         /\ log' = r.log
  /\ pc' = "done"
  /\ UNCHANGED <<i, vertices, triangles>>

CallFromResource ==
  /\ pc = "idle"
  /\ \E retrieved \in Retrievals, scale \in ScalePool, imported \in ImportedScenes :
       \E r \in {createMeshFromResource(retrieved, scale, imported)} :
         /\ fn' = "resource"
         /\ arg' = [retrieved |-> retrieved, scale |-> scale, imported |-> imported]
         /\ gvertices' = r.vertices
         /\ gtriangles' = r.triangles
         /\ copied' = r.copied
         /\ mesh' = r.mesh
         /\ log' = r.log
  /\ pc' = "done"
  /\ UNCHANGED <<i, vertices, triangles>>

----------------------------------------------------------------------------
(* All entry points *)

Next ==
  \/ CallFromSource
  \/ WeldLoop
  \/ Assemble
  \/ CallFromIndexed
  \/ CallFromAsset
  \/ CallFromBinary
  \/ CallFromResource
  \/ Reset

Spec == Init /\ [][Next]_vars

----------------------------------------------------------------------------
(* Properties of createMeshFromVertices(source) *)

(* the points that form whole triples *)
Used(source) == 3 * (Len(source) \div 3)

(* the position of the first point equal to point k *)
FirstOccurrence(source, k) ==
  CHOOSE j \in 1..k : source[j] = source[k] /\ \A h \in 1..(j - 1) : source[h] # source[k]

DistinctBefore(source, k) == Cardinality({source[j] : j \in 1..(k - 1)})

(* the position stored in the mesh's vertex array at index idx *)
MeshVertex(m, idx) == <<m.vertices[3 * idx + 1], m.vertices[3 * idx + 2], m.vertices[3 * idx + 3]>>

Returned == pc = "done" /\ mesh # NULL

SpecExampleTriangle == <<<<0, 0, 0>>, <<1, 0, 0>>, <<0, 0, 0>>>>

(* C1: welding is order-stable.  Scanning the used points in input order,  *)
(* a point equal to an earlier point gets the index of its first           *)
(* occurrence, a point not seen before gets the number of distinct points  *)
(* seen so far; the output triangles are these indices in input order, and *)
(* [(0,0,0), (1,0,0), (0,0,0)] yields 2 vertices and the triple (0, 1, 0). *)
C1_WeldingOrderStable ==
  fn = "source" =>
    /\ Len(triangles) = 3 * i
    /\ \A k \in 1..Len(triangles) :
         LET f == FirstOccurrence(arg, k)
         IN  triangles[k] = IF f < k THEN triangles[f] ELSE DistinctBefore(arg, k)
    /\ Returned =>
         /\ Len(mesh.triangles) = Used(arg)
         /\ \A k \in 1..Used(arg) : mesh.triangles[k] = triangles[k]
    /\ (Returned /\ arg = SpecExampleTriangle) =>
         /\ mesh.vertex_count = 2
         /\ mesh.triangles = <<0, 1, 0>>

C1_Witness ==
  /\ fn = "source"
  /\ Returned
  /\ arg = <<<<1, 0, 0>>, <<0, 1, 0>>, <<1, 0, 0>>, <<0, 0, 0>>, <<0, 1, 0>>, <<0, 0, 1>>>>
  /\ mesh.triangles = <<0, 1, 0, 2, 1, 3>>

(* C7: the result is absence exactly when fewer than 3 points are given;   *)
(* otherwise the mesh has floor(L/3) triangles built from the first        *)
(* 3*floor(L/3) points only, and a diagnostic is emitted when 3 does not   *)
(* divide L.                                                               *)
C7_TruncationToWholeTriples ==
  (fn = "source" /\ pc = "done") =>
    /\ (mesh = NULL) <=> (Len(arg) < 3)
    /\ mesh # NULL =>
         /\ mesh.triangle_count = Len(arg) \div 3
         /\ Len(mesh.triangles) = Used(arg)
         /\ Len(mesh.vertices) = 3 * mesh.vertex_count
         /\ {MeshVertex(mesh, v) : v \in 0..(mesh.vertex_count - 1)}
              = {arg[k] : k \in 1..Used(arg)}
         /\ (Len(arg) % 3 # 0) => log # <<>>

C7_Witness ==
  /\ fn = "source"
  /\ Returned
  /\ Len(arg) = 5
  /\ arg[5] \notin {arg[k] : k \in 1..3}
  /\ mesh.triangle_count = 1
  /\ log # <<>>

(* C9: welding round-trips and is minimal.  The vertex stored at index     *)
(* triangles[k] is source[k] for every used k, every vertex index is       *)
(* referenced, and no two vertices of the mesh are equal.                  *)
C9_WeldingRoundTrip ==
  (fn = "source" /\ Returned) =>
    /\ \A k \in 1..(3 * mesh.triangle_count) :
         MeshVertex(mesh, mesh.triangles[k]) = arg[k]
    /\ \A v \in 0..(mesh.vertex_count - 1) :
         \E k \in 1..(3 * mesh.triangle_count) : mesh.triangles[k] = v
    /\ \A v, w \in 0..(mesh.vertex_count - 1) :
         v # w => MeshVertex(mesh, v) # MeshVertex(mesh, w)
    /\ mesh.vertex_count = Cardinality({arg[k] : k \in 1..(3 * mesh.triangle_count)})

C9_Witness ==
  /\ fn = "source"
  /\ Returned
  /\ Len(arg) = 6
  /\ mesh.vertex_count = 3
  /\ MeshVertex(mesh, 0) = <<1, 0, 0>>
  /\ MeshVertex(mesh, 1) = <<0, 0, 0>>

----------------------------------------------------------------------------
(* Properties of scene flattening *)

RECURSIVE Flatten(_)
Flatten(ss) == IF ss = <<>> THEN <<>> ELSE Head(ss) \o Flatten(Tail(ss))

RECURSIVE PreOrder(_, _)
RECURSIVE PreOrderForest(_, _)
PreOrder(scene, node) == <<node>> \o PreOrderForest(scene, scene.node[node].mChildren)
PreOrderForest(scene, nodes) ==
  IF nodes = <<>> THEN <<>>
  ELSE PreOrder(scene, Head(nodes)) \o PreOrderForest(scene, Tail(nodes))

(* the attachments [node, mesh] of primitive meshes, node by node in pre-order *)
Attachments(scene) ==
  LET po == PreOrder(scene, scene.mRootNode)
  IN  Flatten([p \in 1..Len(po) |->
        [j \in 1..Len(scene.node[po[p]].mMeshes) |->
           [node |-> po[p], mesh |-> scene.mMeshes[scene.node[po[p]].mMeshes[j] + 1]]]])

(* the mesh-local vertices [node, vertex] in the order of the attachments *)
Origins(scene) ==
  LET att == Attachments(scene)
  IN  Flatten([t \in 1..Len(att) |->
        [v \in 1..Len(att[t].mesh.mVertices) |->
           [node |-> att[t].node, vertex |-> att[t].mesh.mVertices[v]]]])

ParentOf(scene, node) ==
  CHOOSE q \in DOMAIN scene.node :
    \E c \in 1..Len(scene.node[q].mChildren) : scene.node[q].mChildren[c] = node

(* the node's local transform applied first, then its ancestors' up to the root *)
RECURSIVE ToWorld(_, _, _)
ToWorld(scene, node, v) ==
  LET w == MatVec(scene.node[node].mTransformation, v)
  IN  IF node = scene.mRootNode THEN w ELSE ToWorld(scene, ParentOf(scene, node), w)

(* parent's cumulative transform composed with the local one; identity above the root *)
RECURSIVE Cumulative(_, _)
Cumulative(scene, node) ==
  IF node = scene.mRootNode THEN scene.node[node].mTransformation
  ELSE MatMul(Cumulative(scene, ParentOf(scene, node)), scene.node[node].mTransformation)

ScaleMul(scale, v) == <<scale[1] * v[1], scale[2] * v[2], scale[3] * v[3]>>

Flattened == fn = "asset" /\ pc = "done" /\ HasMeshes(arg.scene)

SpecExampleScene ==
  MakeScene(2, [k \in 2..2 |-> 1], <<Identity, Translate2x>>, <<MeshA>>, <<<<>>, <<0>>>>)

(* C3: every emitted vertex is the scale triple times, component-wise, the *)
(* mesh-local vertex moved by the node's local transform first and then by *)
(* each ancestor's up to the root; the two-node example emits (3,0,0).     *)
C3_CumulativeTransformThenScale ==
  Flattened =>
    LET o == Origins(arg.scene)
    IN  /\ Len(gvertices) = Len(o)
        /\ \A p \in 1..Len(o) :
             gvertices[p] = ScaleMul(arg.scale, ToWorld(arg.scene, o[p].node, o[p].vertex))
        /\ (arg.scene = SpecExampleScene /\ arg.scale = <<1, 1, 1>>) =>
             gvertices = <<<<3, 0, 0>>>>

C3_Witness ==
  /\ Flattened
  /\ Returned
  /\ Len(arg.scene.node[1].mChildren) = 1
  /\ arg.scene.node[1].mTransformation = RotZ
  /\ arg.scene.node[2].mTransformation = Translate2x
  /\ arg.scene.node[2].mMeshes = <<0>>
  /\ arg.scale = <<2, 3, 5>>
  /\ \E p \in 1..Len(gvertices) : gvertices[p] = <<0, 9, 0>>

RECURSIVE SumOver(_, _)
SumOver(f, n) == IF n = 0 THEN 0 ELSE f[n] + SumOver(f, n - 1)

BaseOffset(att, t) == SumOver([u \in 1..Len(att) |-> Len(att[u].mesh.mVertices)], t - 1)

(* C5: a face is appended to the global triangle list iff it has exactly 3 *)
(* indices; kept faces keep their order and each index is the local index  *)
(* plus the length of the global vertex list before the mesh's vertices.   *)
C5_TriangularFacesOffset ==
  Flattened =>
    LET att == Attachments(arg.scene)
    IN  gtriangles =
          Flatten([t \in 1..Len(att) |->
            Flatten([f \in 1..Len(att[t].mesh.mFaces) |->
              LET face == att[t].mesh.mFaces[f]
              IN  IF Len(face) = 3
                  THEN [e \in 1..3 |-> BaseOffset(att, t) + face[e]]
                  ELSE <<>>])])

C5_Witness ==
  /\ Flattened
  /\ Returned
  /\ arg.scene.mMeshes = <<MeshC, MeshB>>
  /\ Len(arg.scene.node) = 1
  /\ arg.scene.node[1].mMeshes = <<0, 1>>
  /\ gtriangles = <<2, 1, 2, 1, 1, 2>>

KeptFaces(m) == Cardinality({f \in 1..Len(m.mFaces) : Len(m.mFaces[f]) = 3})

(* C6: after the traversal, no vertices gives absence (NoVertices),        *)
(* vertices without triangles gives absence (NoTriangles), and otherwise   *)
(* the mesh holds every collected vertex unwelded and every kept face.     *)
C6_AssetOutcome ==
  Flattened =>
    LET att == Attachments(arg.scene)
        nv == SumOver([t \in 1..Len(att) |-> Len(att[t].mesh.mVertices)], Len(att))
        nf == SumOver([t \in 1..Len(att) |-> KeptFaces(att[t].mesh)], Len(att))
    IN  IF nv = 0
        THEN mesh = NULL /\ log = <<Warn("no vertices in the scene")>>
        ELSE IF nf = 0
        THEN mesh = NULL /\ log = <<Warn("no triangles in the scene")>>
        ELSE /\ mesh # NULL
             /\ mesh.vertex_count = nv
             /\ mesh.triangle_count = nf
             /\ \A p \in 1..nv : MeshVertex(mesh, p - 1) = gvertices[p]
             /\ mesh.triangles = gtriangles

C6_Witness ==
  /\ Flattened
  /\ Returned
  /\ mesh.vertex_count = 2
  /\ mesh.triangle_count = 2
  /\ MeshVertex(mesh, 0) = MeshVertex(mesh, 1)

----------------------------------------------------------------------------
(* Properties of the Mesh and of the failure paths *)

FaceIndicesInRange(scene) ==
  \A m \in 1..Len(scene.mMeshes) :
    \A f \in 1..Len(scene.mMeshes[m].mFaces) :
      \A e \in 1..Len(scene.mMeshes[m].mFaces[f]) :
        scene.mMeshes[m].mFaces[f][e] < Len(scene.mMeshes[m].mVertices)

(* C2: every mesh returned by createMeshFromVertices(source), and by       *)
(* createMeshFromAsset for a scene whose face indices are below the vertex *)
(* count of their own primitive mesh, has all triangle indices below its   *)
(* vertex count.                                                           *)
C2_IndicesBelowVertexCount ==
  (Returned /\ (fn = "source" \/ (fn = "asset" /\ FaceIndicesInRange(arg.scene)))) =>
    \A k \in 1..Len(mesh.triangles) : mesh.triangles[k] < mesh.vertex_count

C2_Witness ==
  /\ Returned
  /\ fn = "asset"
  /\ FaceIndicesInRange(arg.scene)
  /\ mesh.vertex_count = 3
  /\ \E k \in 1..Len(mesh.triangles) : mesh.triangles[k] = 2

(* C8: every call of createMeshFromVertices(source), createMeshFromBinary, *)
(* createMeshFromAsset or createMeshFromResource that returns no mesh has  *)
(* logged a warning or an error before returning.                          *)
C8_AbsenceIsLogged ==
  (pc = "done" /\ mesh = NULL /\ fn \in {"source", "binary", "asset", "resource"}) =>
    log # <<>>

(* C10: createMeshFromVertices(vertices, triangles) never writes more      *)
(* index entries into the mesh's triangle array than the 3*M it was        *)
(* allocated with, whatever the length of the index list.                  *)
C10_CopyWithinCapacity ==
  fn = "indexed" => copied.written <= copied.capacity

====
